---- MODULE Spec2Model ----
(***************************************************************************)
(* Model of the stock ledger and movement engine of Appinventario.         *)
(*                                                                         *)
(* The application keeps one state tree (AppState) that is only changed by *)
(* dispatching an action to `reducer` (src/context/InventoryContext.tsx).  *)
(* Arrays are modelled as sequences: index i of a sequence is index i-1 of *)
(* the JavaScript array, and index 0 stands for the -1 of findIndex / the  *)
(* undefined of find.                                                      *)
(*                                                                         *)
(* Fields that no operation ever reads back (sku, category, price,         *)
(* location, details, timestamp, user) are left out of the records.        *)
(***************************************************************************)
EXTENDS Integers, Sequences, FiniteSets, TLC

VARIABLES
    products,        \* AppState.products       : sequence of [id, name]
    warehouses,      \* AppState.warehouses     : sequence of [id, name]
    inventory,       \* AppState.inventory      : sequence of [productId, warehouseId, quantity]
    logs,            \* AppState.logs           : sequence of log entries, newest first
    purchaseOrders,  \* AppState.purchaseOrders : sequence of [id, status, items]
    users,           \* AppState.users          : sequence of [id, email, password, role]
    userWarehouseAccess, \* AppState.userWarehouseAccess : sequence of [userId, warehouseId]
    currentUser,     \* AppState.currentUser    : a user, or NoUser for null
    uuidCount,       \* number of identifiers generateUUID has produced so far
    documentToView,  \* LogView's state: [logEntries, type], or NoDocument for null
    instance,        \* number of GuiaRemisionContent instances mounted so far
    apiStatus,       \* state of the mounted GuiaRemisionContent
    apiResponse,     \* state of the mounted GuiaRemisionContent
    pending,         \* the generateGRE_API calls whose timer has not fired yet
    ops,             \* number of actions dispatched so far
    last,            \* the action dispatched last (type and payload)
    prev             \* the state that action was applied to

vars == <<products, warehouses, inventory, logs, purchaseOrders, users, userWarehouseAccess,
          currentUser, uuidCount, documentToView, instance, apiStatus, apiResponse, pending,
          ops, last, prev>>

(***************************************************************************)
(* Bounds of the model.                                                    *)
(***************************************************************************)
MaxOps == 2        \* dispatches explored from the initial state
MaxOrderOps == 4   \* dispatches explored in the purchase-order specification
MaxOrders == 1     \* purchase orders created in the purchase-order specification
MaxQty == 2        \* largest quantity an action payload carries
MaxBulkAdd == 2    \* most products one BULK_ADD_PRODUCTS carries
MaxItems == 2      \* most items of a bulk transfer or of a purchase order
MaxGreOps == 1     \* dispatches explored in the guide specification
MaxDocuments == 1  \* documents opened in the guide specification

(***************************************************************************)
(* Helpers.                                                                *)
(***************************************************************************)
\* Math.max
Max(a, b) == IF a >= b THEN a ELSE b

\* generateUUID: the n-th identifier produced; identifiers never repeat.
UUID(n) == "u" \o ToString(n)

\* arr.findIndex(x => x.id === id), 0 when there is none
FindById(arr, id) ==
    LET S == {i \in 1..Len(arr) : arr[i].id = id}
    IN  IF S = {} THEN 0 ELSE CHOOSE i \in S : \A j \in S : i <= j

\* inventory.findIndex(i => i.productId === productId && i.warehouseId === warehouseId)
InventoryIndex(inv, productId, warehouseId) ==
    LET S == {i \in 1..Len(inv) : inv[i].productId = productId /\ inv[i].warehouseId = warehouseId}
    IN  IF S = {} THEN 0 ELSE CHOOSE i \in S : \A j \in S : i <= j

\* arr.filter(keep)
RECURSIVE FilterOutProduct(_, _)
FilterOutProduct(inv, productId) ==
    IF inv = <<>> THEN <<>>
    ELSE IF Head(inv).productId = productId
         THEN FilterOutProduct(Tail(inv), productId)
         ELSE <<Head(inv)>> \o FilterOutProduct(Tail(inv), productId)

RECURSIVE FilterOutId(_, _)
FilterOutId(arr, id) ==
    IF arr = <<>> THEN <<>>
    ELSE IF Head(arr).id = id
         THEN FilterOutId(Tail(arr), id)
         ELSE <<Head(arr)>> \o FilterOutId(Tail(arr), id)

(***************************************************************************)
(* Initial state: the mock data, scaled down.  It keeps the shapes of      *)
(* mockInventory: pairs with stock, a pair whose entry holds 0, and a pair *)
(* with no entry at all.                                                   *)
(***************************************************************************)
mockProducts ==
    << [id |-> "p1", name |-> "Taladro"],
       [id |-> "p2", name |-> "Brocas"] >>

mockWarehouses ==
    << [id |-> "w1", name |-> "Almacen Principal"],
       [id |-> "w2", name |-> "Bodega Norte"] >>

mockInventory ==
    << [productId |-> "p1", warehouseId |-> "w1", quantity |-> 2],
       [productId |-> "p2", warehouseId |-> "w1", quantity |-> 1],
       [productId |-> "p2", warehouseId |-> "w2", quantity |-> 0] >>

mockLogs ==
    << [id |-> "l4", productName |-> "Taladro", warehouseName |-> "Almacen Principal",
        type |-> "SALIDA", quantityChange |-> -1, newQuantityInWarehouse |-> 2] >>

mockPurchaseOrders == <<>>

\* mockUsers and mockUserWarehouseAccess: an administrator, a manager with access
\* to every warehouse, an employee with access to one.
mockUsers ==
    << [id |-> "u1", email |-> "admin@dominio.com", password |-> "adminpassword", role |-> "ADMINISTRADOR"],
       [id |-> "u2", email |-> "gerente@dominio.com", password |-> "gerentepassword", role |-> "GERENTE"],
       [id |-> "u3", email |-> "empleado@dominio.com", password |-> "empleadopassword", role |-> "EMPLEADO"] >>

mockUserWarehouseAccess ==
    << [userId |-> "u2", warehouseId |-> "w1"],
       [userId |-> "u2", warehouseId |-> "w2"],
       [userId |-> "u3", warehouseId |-> "w2"] >>

\* currentUser === null
NoUser == [id |-> "null", email |-> "null", password |-> "null", role |-> "null"]

initialState ==
    [products |-> mockProducts, warehouses |-> mockWarehouses,
     inventory |-> mockInventory, logs |-> mockLogs,
     purchaseOrders |-> mockPurchaseOrders,
     users |-> mockUsers, userWarehouseAccess |-> mockUserWarehouseAccess,
     currentUser |-> mockUsers[1], uuidCount |-> 0]

\* The state tree as one value, the first argument of the reducer.
State ==
    [products |-> products, warehouses |-> warehouses,
     inventory |-> inventory, logs |-> logs,
     purchaseOrders |-> purchaseOrders,
     users |-> users, userWarehouseAccess |-> userWarehouseAccess,
     currentUser |-> currentUser, uuidCount |-> uuidCount]

\* documentToView === null
NoDocument == [logEntries |-> <<>>, type |-> "null"]

\* apiResponse === null
NoResponse == [success |-> FALSE, body |-> "null"]

(***************************************************************************)
(* The reducer, one operator per case.                                     *)
(***************************************************************************)

\* case 'ADD_WAREHOUSE'
ReduceAddWarehouse(state, action) ==
    [state EXCEPT
        !.warehouses = Append(@, [id |-> UUID(state.uuidCount + 1), name |-> action.name]),
        !.uuidCount = @ + 1]

\* The CREACION entry of a new product.
CreationLog(logId, productName) ==
    [id |-> logId, productName |-> productName, warehouseName |-> "N/A",
     type |-> "CREACION", quantityChange |-> 0, newQuantityInWarehouse |-> 0]

\* case 'ADD_PRODUCT'
ReduceAddProduct(state, action) ==
    LET newProduct == [id |-> UUID(state.uuidCount + 1), name |-> action.name]
        newLog == CreationLog(UUID(state.uuidCount + 2), newProduct.name)
    IN  [state EXCEPT
            !.products = Append(@, newProduct),
            !.logs = <<newLog>> \o @,
            !.uuidCount = @ + 2]

\* ReduceBulkAddProducts that logs the first product only.
ReduceBulkAddProductsOneLog(state, action) ==
    LET n == Len(action.names)
        newProducts == [i \in 1..n |-> [id |-> UUID(state.uuidCount + 2 * i - 1),
                                        name |-> action.names[i]]]
        newLogs == [i \in 1..(IF n > 0 THEN 1 ELSE 0) |->
                        CreationLog(UUID(state.uuidCount + 2 * i), newProducts[i].name)]
    IN  [state EXCEPT
            !.products = @ \o newProducts,
            !.logs = newLogs \o @,
            !.uuidCount = @ + 2 * n]

\* case 'BULK_ADD_PRODUCTS'
ReduceBulkAddProducts(state, action) ==
    LET n == Len(action.names)
        newProducts == [i \in 1..n |-> [id |-> UUID(state.uuidCount + 2 * i - 1),
                                        name |-> action.names[i]]]
        newLogs == [i \in 1..n |-> CreationLog(UUID(state.uuidCount + 2 * i), newProducts[i].name)]
    IN  [state EXCEPT
            !.products = @ \o newProducts,
            !.logs = newLogs \o @,
            !.uuidCount = @ + 2 * n]

\* ReduceUpdateProduct that also renames the product in the log.
ReduceUpdateProductRenamesLogs(state, action) ==
    LET p == FindById(state.products, action.product.id)
    IN  [state EXCEPT
            !.products = [i \in 1..Len(@) |->
                            IF @[i].id = action.product.id THEN action.product ELSE @[i]],
            !.logs = [i \in 1..Len(@) |->
                        IF p > 0 /\ @[i].productName = state.products[p].name
                        THEN [@[i] EXCEPT !.productName = action.product.name]
                        ELSE @[i]]]

\* case 'UPDATE_PRODUCT'
ReduceUpdateProduct(state, action) ==
    [state EXCEPT
        !.products = [i \in 1..Len(@) |->
                        IF @[i].id = action.product.id THEN action.product ELSE @[i]]]

\* ReduceDeleteProduct that leaves the product's inventory entries behind.
ReduceDeleteProductKeepsInventory(state, action) ==
    [state EXCEPT !.products = FilterOutId(@, action.productId)]

\* case 'DELETE_PRODUCT'
ReduceDeleteProduct(state, action) ==
    [state EXCEPT
        !.products = FilterOutId(@, action.productId),
        !.inventory = FilterOutProduct(@, action.productId)]

\* AdjustedQuantity without the floor at zero.
AdjustedQuantityUnclamped(inv, productId, warehouseId, quantityChange) ==
    LET inventoryItemIndex == InventoryIndex(inv, productId, warehouseId)
    IN  IF inventoryItemIndex > 0
        THEN inv[inventoryItemIndex].quantity + quantityChange
        ELSE quantityChange

\* AdjustedQuantity that starts from zero whatever the entry holds.
AdjustedQuantityIgnoresCurrent(inv, productId, warehouseId, quantityChange) ==
    Max(0, quantityChange)

\* ADJUST_STOCK: newQuantityInWarehouse
AdjustedQuantity(inv, productId, warehouseId, quantityChange) ==
    LET inventoryItemIndex == InventoryIndex(inv, productId, warehouseId)
    IN  IF inventoryItemIndex > 0
        THEN Max(0, inv[inventoryItemIndex].quantity + quantityChange)
        ELSE Max(0, quantityChange)

\* AdjustedInventory that drops an entry whose quantity reaches zero.
AdjustedInventoryDropsZero(inv, productId, warehouseId, quantityChange) ==
    LET inventoryItemIndex == InventoryIndex(inv, productId, warehouseId)
        newQuantityInWarehouse == AdjustedQuantity(inv, productId, warehouseId, quantityChange)
    IN  IF inventoryItemIndex > 0
        THEN IF newQuantityInWarehouse = 0
             THEN SubSeq(inv, 1, inventoryItemIndex - 1)
                  \o SubSeq(inv, inventoryItemIndex + 1, Len(inv))
             ELSE [inv EXCEPT ![inventoryItemIndex].quantity = newQuantityInWarehouse]
        ELSE IF newQuantityInWarehouse > 0
             THEN Append(inv, [productId |-> productId, warehouseId |-> warehouseId,
                               quantity |-> newQuantityInWarehouse])
             ELSE inv

\* ADJUST_STOCK: updatedInventory
AdjustedInventory(inv, productId, warehouseId, quantityChange) ==
    LET inventoryItemIndex == InventoryIndex(inv, productId, warehouseId)
        newQuantityInWarehouse == AdjustedQuantity(inv, productId, warehouseId, quantityChange)
    IN  IF inventoryItemIndex > 0
        THEN [inv EXCEPT ![inventoryItemIndex].quantity = newQuantityInWarehouse]
        ELSE IF newQuantityInWarehouse > 0
             THEN Append(inv, [productId |-> productId, warehouseId |-> warehouseId,
                               quantity |-> newQuantityInWarehouse])
             ELSE inv

\* ReduceAdjustStock that does not look the warehouse up before it writes.
ReduceAdjustStockNoWarehouseCheck(state, action) ==
    LET p == FindById(state.products, action.productId)
        w == FindById(state.warehouses, action.warehouseId)
    IN  IF p = 0 THEN state
        ELSE LET newLog ==
                    [id |-> UUID(state.uuidCount + 1),
                     productName |-> state.products[p].name,
                     warehouseName |-> IF w = 0 THEN "N/A" ELSE state.warehouses[w].name,
                     type |-> action.logType,
                     quantityChange |-> action.quantityChange,
                     newQuantityInWarehouse |->
                        AdjustedQuantity(state.inventory, action.productId,
                                         action.warehouseId, action.quantityChange)]
             IN  [state EXCEPT
                    !.inventory = AdjustedInventory(@, action.productId, action.warehouseId,
                                                   action.quantityChange),
                    !.logs = <<newLog>> \o @,
                    !.uuidCount = @ + 1]

\* ReduceAdjustStock that logs every adjustment under the type AJUSTE.
ReduceAdjustStockLogsAjuste(state, action) ==
    LET p == FindById(state.products, action.productId)
        w == FindById(state.warehouses, action.warehouseId)
    IN  IF p = 0 \/ w = 0 THEN state
        ELSE LET newLog ==
                    [id |-> UUID(state.uuidCount + 1),
                     productName |-> state.products[p].name,
                     warehouseName |-> state.warehouses[w].name,
                     type |-> "AJUSTE",
                     quantityChange |-> action.quantityChange,
                     newQuantityInWarehouse |->
                        AdjustedQuantity(state.inventory, action.productId,
                                         action.warehouseId, action.quantityChange)]
             IN  [state EXCEPT
                    !.inventory = AdjustedInventory(@, action.productId, action.warehouseId,
                                                   action.quantityChange),
                    !.logs = <<newLog>> \o @,
                    !.uuidCount = @ + 1]

\* case 'ADJUST_STOCK'
ReduceAdjustStock(state, action) ==
    LET p == FindById(state.products, action.productId)
        w == FindById(state.warehouses, action.warehouseId)
    IN  IF p = 0 \/ w = 0 THEN state
        ELSE LET newLog ==
                    [id |-> UUID(state.uuidCount + 1),
                     productName |-> state.products[p].name,
                     warehouseName |-> state.warehouses[w].name,
                     type |-> action.logType,
                     quantityChange |-> action.quantityChange,
                     newQuantityInWarehouse |->
                        AdjustedQuantity(state.inventory, action.productId,
                                         action.warehouseId, action.quantityChange)]
             IN  [state EXCEPT
                    !.inventory = AdjustedInventory(@, action.productId, action.warehouseId,
                                                   action.quantityChange),
                    !.logs = <<newLog>> \o @,
                    !.uuidCount = @ + 1]

\* TransferRejected without the comparison of the source quantity.
TransferRejectedNoStockCheck(state, productId, fromWarehouseId, toWarehouseId, quantity) ==
    \/ FindById(state.products, productId) = 0
    \/ FindById(state.warehouses, fromWarehouseId) = 0
    \/ FindById(state.warehouses, toWarehouseId) = 0
    \/ quantity <= 0
    \/ InventoryIndex(state.inventory, productId, fromWarehouseId) = 0

\* TRANSFER_STOCK: the two early returns
TransferRejected(state, productId, fromWarehouseId, toWarehouseId, quantity) ==
    LET fromInventoryIndex == InventoryIndex(state.inventory, productId, fromWarehouseId)
    IN  \/ FindById(state.products, productId) = 0
        \/ FindById(state.warehouses, fromWarehouseId) = 0
        \/ FindById(state.warehouses, toWarehouseId) = 0
        \/ quantity <= 0
        \/ fromInventoryIndex = 0
        \/ state.inventory[fromInventoryIndex].quantity < quantity

\* TransferExit that leaves the source quantity as it was.
TransferExitKeepsSource(inv, productId, fromWarehouseId, quantity) == inv

\* TRANSFER_STOCK: updatedInventory after the exit from the source
TransferExit(inv, productId, fromWarehouseId, quantity) ==
    LET fromInventoryIndex == InventoryIndex(inv, productId, fromWarehouseId)
    IN  [inv EXCEPT ![fromInventoryIndex].quantity = @ - quantity]

\* TransferEntry that pushes a new entry without looking for an existing one.
TransferEntryAlwaysPushes(inv, productId, toWarehouseId, quantity) ==
    Append(inv, [productId |-> productId, warehouseId |-> toWarehouseId,
                 quantity |-> quantity])

\* TRANSFER_STOCK: updatedInventory after the entry into the destination
TransferEntry(inv, productId, toWarehouseId, quantity) ==
    LET toInventoryIndex == InventoryIndex(inv, productId, toWarehouseId)
    IN  IF toInventoryIndex > 0
        THEN [inv EXCEPT ![toInventoryIndex].quantity = @ + quantity]
        ELSE Append(inv, [productId |-> productId, warehouseId |-> toWarehouseId,
                          quantity |-> quantity])

\* TRANSFER_STOCK: updatedInventory
TransferredInventory(inv, productId, fromWarehouseId, toWarehouseId, quantity) ==
    TransferEntry(TransferExit(inv, productId, fromWarehouseId, quantity),
                  productId, toWarehouseId, quantity)

\* TransferLogs whose SALIDA entry records +quantity.
TransferLogsUnsigned(state, productId, fromWarehouseId, toWarehouseId, quantity) ==
    LET product == state.products[FindById(state.products, productId)]
        fromWarehouse == state.warehouses[FindById(state.warehouses, fromWarehouseId)]
        toWarehouse == state.warehouses[FindById(state.warehouses, toWarehouseId)]
    IN  << [id |-> UUID(state.uuidCount + 1),
            productName |-> product.name,
            warehouseName |-> fromWarehouse.name,
            type |-> "SALIDA",
            quantityChange |-> quantity,
            newQuantityInWarehouse |->
                state.inventory[InventoryIndex(state.inventory, productId,
                                               fromWarehouseId)].quantity - quantity],
           [id |-> UUID(state.uuidCount + 2),
            productName |-> product.name,
            warehouseName |-> toWarehouse.name,
            type |-> "ENTRADA",
            quantityChange |-> quantity,
            newQuantityInWarehouse |-> quantity] >>

\* TRANSFER_STOCK: logsToAdd
TransferLogs(state, productId, fromWarehouseId, toWarehouseId, quantity) ==
    LET product == state.products[FindById(state.products, productId)]
        fromWarehouse == state.warehouses[FindById(state.warehouses, fromWarehouseId)]
        toWarehouse == state.warehouses[FindById(state.warehouses, toWarehouseId)]
        afterExit == TransferExit(state.inventory, productId, fromWarehouseId, quantity)
        afterEntry == TransferEntry(afterExit, productId, toWarehouseId, quantity)
        finalFromQuantity ==
            afterExit[InventoryIndex(afterExit, productId, fromWarehouseId)].quantity
        finalToQuantity ==
            afterEntry[InventoryIndex(afterEntry, productId, toWarehouseId)].quantity
    IN  << [id |-> UUID(state.uuidCount + 1),
            productName |-> product.name,
            warehouseName |-> fromWarehouse.name,
            type |-> "SALIDA",
            quantityChange |-> -quantity,
            newQuantityInWarehouse |-> finalFromQuantity],
           [id |-> UUID(state.uuidCount + 2),
            productName |-> product.name,
            warehouseName |-> toWarehouse.name,
            type |-> "ENTRADA",
            quantityChange |-> quantity,
            newQuantityInWarehouse |-> finalToQuantity] >>

\* case 'TRANSFER_STOCK'
ReduceTransferStock(state, action) ==
    IF TransferRejected(state, action.productId, action.fromWarehouseId,
                        action.toWarehouseId, action.quantity)
    THEN state
    ELSE [state EXCEPT
            !.inventory = TransferredInventory(@, action.productId, action.fromWarehouseId,
                                               action.toWarehouseId, action.quantity),
            !.logs = TransferLogs(state, action.productId, action.fromWarehouseId,
                                  action.toWarehouseId, action.quantity) \o @,
            !.uuidCount = @ + 2]

(***************************************************************************)
(* BULK_TRANSFER_STOCK.  BulkTransferModal dispatches it, the reducer case *)
(* that handles it is not among the sources; it follows spec.md 4.3       *)
(* (bulkTransferStock): the preconditions of transferStock for every item, *)
(* all checked before any mutation, one transactionId for the batch and an *)
(* EXIT and an ENTRY entry per item.                                       *)
(***************************************************************************)
\* BulkTransferRejected that compares the source quantity for the first item only.
BulkTransferRejectedFirstItemOnly(state, items, fromWarehouseId, toWarehouseId) ==
    \/ fromWarehouseId = toWarehouseId
    \/ FindById(state.warehouses, fromWarehouseId) = 0
    \/ FindById(state.warehouses, toWarehouseId) = 0
    \/ \E k \in 1..Len(items) :
          IF k = 1
          THEN TransferRejected(state, items[k].productId, fromWarehouseId, toWarehouseId,
                                items[k].quantity)
          ELSE \/ FindById(state.products, items[k].productId) = 0
               \/ items[k].quantity <= 0
               \/ InventoryIndex(state.inventory, items[k].productId, fromWarehouseId) = 0

BulkTransferRejected(state, items, fromWarehouseId, toWarehouseId) ==
    \/ fromWarehouseId = toWarehouseId
    \/ FindById(state.warehouses, fromWarehouseId) = 0
    \/ FindById(state.warehouses, toWarehouseId) = 0
    \/ \E k \in 1..Len(items) :
          TransferRejected(state, items[k].productId, fromWarehouseId, toWarehouseId,
                           items[k].quantity)

\* BulkTransferredInventory that moves the first item only.
BulkTransferredInventoryFirstOnly(inv, items, fromWarehouseId, toWarehouseId) ==
    IF items = <<>> THEN inv
    ELSE TransferredInventory(inv, Head(items).productId, fromWarehouseId,
                              toWarehouseId, Head(items).quantity)

RECURSIVE BulkTransferredInventory(_, _, _, _)
BulkTransferredInventory(inv, items, fromWarehouseId, toWarehouseId) ==
    IF items = <<>> THEN inv
    ELSE BulkTransferredInventory(
            TransferredInventory(inv, Head(items).productId, fromWarehouseId,
                                 toWarehouseId, Head(items).quantity),
            Tail(items), fromWarehouseId, toWarehouseId)

\* The EXIT and ENTRY entries of item k, tagged with the batch's transactionId.
BulkItemLogs(state, items, k, fromWarehouseId, toWarehouseId, transactionId) ==
    LET before == BulkTransferredInventory(state.inventory, SubSeq(items, 1, k - 1),
                                           fromWarehouseId, toWarehouseId)
        pair == TransferLogs([state EXCEPT !.inventory = before,
                                           !.uuidCount = state.uuidCount + 2 * k - 1],
                             items[k].productId, fromWarehouseId, toWarehouseId,
                             items[k].quantity)
    IN  [j \in 1..2 |-> [id |-> pair[j].id,
                         productName |-> pair[j].productName,
                         warehouseName |-> pair[j].warehouseName,
                         type |-> pair[j].type,
                         quantityChange |-> pair[j].quantityChange,
                         newQuantityInWarehouse |-> pair[j].newQuantityInWarehouse,
                         transactionId |-> transactionId]]

RECURSIVE BulkTransferLogs(_, _, _, _, _, _)
BulkTransferLogs(state, items, k, fromWarehouseId, toWarehouseId, transactionId) ==
    IF k > Len(items) THEN <<>>
    ELSE BulkItemLogs(state, items, k, fromWarehouseId, toWarehouseId, transactionId)
         \o BulkTransferLogs(state, items, k + 1, fromWarehouseId, toWarehouseId, transactionId)

\* case 'BULK_TRANSFER_STOCK'
ReduceBulkTransferStock(state, action) ==
    IF BulkTransferRejected(state, action.items, action.fromWarehouseId, action.toWarehouseId)
    THEN state
    ELSE [state EXCEPT
            !.inventory = BulkTransferredInventory(@, action.items, action.fromWarehouseId,
                                                   action.toWarehouseId),
            !.logs = BulkTransferLogs(state, action.items, 1, action.fromWarehouseId,
                                      action.toWarehouseId, UUID(state.uuidCount + 1)) \o @,
            !.uuidCount = @ + 1 + 2 * Len(action.items)]

(***************************************************************************)
(* Purchase orders.  PurchaseOrderFormModal dispatches ADD_PURCHASE_ORDER  *)
(* and PurchaseOrdersView dispatches UPDATE_PURCHASE_ORDER; the reducer    *)
(* cases are not among the sources and follow spec.md 3 and 4.3: an order  *)
(* is created in BORRADOR, the transitions are BORRADOR->EMITIDA,          *)
(* EMITIDA->RECIBIDA, BORRADOR->CANCELADA and EMITIDA->CANCELADA, and the  *)
(* receipt posts one ENTRADA per line item through the primitive           *)
(* ADJUST_STOCK uses.                                                      *)
(***************************************************************************)
\* ReduceAddPurchaseOrder that also logs the creation of the order.
ReduceAddPurchaseOrderLogged(state, action) ==
    [state EXCEPT
        !.purchaseOrders = Append(@, [id |-> UUID(state.uuidCount + 1),
                                      status |-> "BORRADOR",
                                      items |-> action.items]),
        !.logs = <<[id |-> UUID(state.uuidCount + 2),
                    productName |-> action.items[1].productName,
                    warehouseName |-> "N/A",
                    type |-> "ENTRADA",
                    quantityChange |-> 0,
                    newQuantityInWarehouse |-> 0]>> \o @,
        !.uuidCount = @ + 2]

\* case 'ADD_PURCHASE_ORDER'
ReduceAddPurchaseOrder(state, action) ==
    [state EXCEPT
        !.purchaseOrders = Append(@, [id |-> UUID(state.uuidCount + 1),
                                      status |-> "BORRADOR",
                                      items |-> action.items]),
        !.uuidCount = @ + 1]

\* TransitionAllowed that lets an order be received from any status.
TransitionAllowedReceiveAlways(from, to) ==
    \/ from = "BORRADOR" /\ to = "EMITIDA"
    \/ to = "RECIBIDA"
    \/ from = "BORRADOR" /\ to = "CANCELADA"
    \/ from = "EMITIDA" /\ to = "CANCELADA"

\* TransitionAllowed that lets a cancelled order be issued again.
TransitionAllowedReopen(from, to) ==
    \/ from = "BORRADOR" /\ to = "EMITIDA"
    \/ from = "CANCELADA" /\ to = "EMITIDA"
    \/ from = "EMITIDA" /\ to = "RECIBIDA"
    \/ from = "BORRADOR" /\ to = "CANCELADA"
    \/ from = "EMITIDA" /\ to = "CANCELADA"

\* The transitions of the purchase-order state machine.
TransitionAllowed(from, to) ==
    \/ from = "BORRADOR" /\ to = "EMITIDA"
    \/ from = "EMITIDA" /\ to = "RECIBIDA"
    \/ from = "BORRADOR" /\ to = "CANCELADA"
    \/ from = "EMITIDA" /\ to = "CANCELADA"

\* ReceivedInventory that posts nothing.
ReceivedInventoryNone(inv, items, k, warehouseId) == inv

\* receivePurchaseOrder: the ledger after the first k line items were posted.
RECURSIVE ReceivedInventory(_, _, _, _)
ReceivedInventory(inv, items, k, warehouseId) ==
    IF k = 0 THEN inv
    ELSE AdjustedInventory(ReceivedInventory(inv, items, k - 1, warehouseId),
                           items[k].productId, warehouseId, items[k].quantity)

\* receivePurchaseOrder: the ENTRADA entries, in line order.
ReceiptLogs(state, items, warehouseId, transactionId) ==
    LET warehouse == state.warehouses[FindById(state.warehouses, warehouseId)]
    IN  [k \in 1..Len(items) |->
            [id |-> UUID(state.uuidCount + 1 + k),
             productName |-> items[k].productName,
             warehouseName |-> warehouse.name,
             type |-> "ENTRADA",
             quantityChange |-> items[k].quantity,
             newQuantityInWarehouse |->
                AdjustedQuantity(ReceivedInventory(state.inventory, items, k - 1, warehouseId),
                                 items[k].productId, warehouseId, items[k].quantity),
             transactionId |-> transactionId]]

\* case 'UPDATE_PURCHASE_ORDER'
ReduceUpdatePurchaseOrder(state, action) ==
    LET o == FindById(state.purchaseOrders, action.purchaseOrderId)
    IN  IF o = 0 THEN state
        ELSE IF ~TransitionAllowed(state.purchaseOrders[o].status, action.status) THEN state
        ELSE IF action.status # "RECIBIDA"
             THEN [state EXCEPT !.purchaseOrders[o].status = action.status]
        ELSE IF FindById(state.warehouses, action.receivedInWarehouseId) = 0 THEN state
        ELSE LET items == state.purchaseOrders[o].items
             IN  [state EXCEPT
                    !.inventory = ReceivedInventory(@, items, Len(items),
                                                    action.receivedInWarehouseId),
                    !.logs = ReceiptLogs(state, items, action.receivedInWarehouseId,
                                         UUID(state.uuidCount + 1)) \o @,
                    !.purchaseOrders[o].status = "RECIBIDA",
                    !.uuidCount = @ + 1 + Len(items)]

(***************************************************************************)
(* Users and their access to warehouses.                                   *)
(***************************************************************************)
\* warehouseIds.map(warehouseId => ({ userId, warehouseId }))
AccessEntries(userId, warehouseIds) ==
    [i \in 1..Len(warehouseIds) |-> [userId |-> userId, warehouseId |-> warehouseIds[i]]]

\* userWarehouseAccess.filter(access => access.userId !== userId)
RECURSIVE FilterOutUser(_, _)
FilterOutUser(access, userId) ==
    IF access = <<>> THEN <<>>
    ELSE IF Head(access).userId = userId
         THEN FilterOutUser(Tail(access), userId)
         ELSE <<Head(access)>> \o FilterOutUser(Tail(access), userId)

\* case 'ADD_USER'
ReduceAddUser(state, action) ==
    LET newUser == [id |-> UUID(state.uuidCount + 1), email |-> action.user.email,
                    password |-> action.user.password, role |-> action.user.role]
    IN  [state EXCEPT
            !.users = Append(@, newUser),
            !.userWarehouseAccess = @ \o AccessEntries(newUser.id, action.warehouseIds),
            !.uuidCount = @ + 1]

\* case 'UPDATE_USER': the user signed in keeps the record they signed in with.
ReduceUpdateUser(state, action) ==
    [state EXCEPT
        !.users = [i \in 1..Len(@) |->
                     IF @[i].id = action.user.id THEN action.user ELSE @[i]],
        !.userWarehouseAccess = FilterOutUser(@, action.user.id)
                                \o AccessEntries(action.user.id, action.warehouseIds)]

\* case 'DELETE_USER'
ReduceDeleteUser(state, action) ==
    IF action.userId = state.currentUser.id THEN state
    ELSE [state EXCEPT
             !.users = FilterOutId(@, action.userId),
             !.userWarehouseAccess = FilterOutUser(@, action.userId)]

\* case 'LOGIN': the user LoginView found becomes the current user.
ReduceLogin(state, action) ==
    [state EXCEPT !.currentUser = action.user]

\* case 'LOGOUT': nobody is signed in.
ReduceLogout(state, action) ==
    [state EXCEPT !.currentUser = NoUser]

\* usePermittedWarehouses
PermittedWarehouses(state) ==
    IF state.currentUser = NoUser THEN <<>>
    ELSE IF state.currentUser.role = "ADMINISTRADOR" THEN state.warehouses
    ELSE LET permittedIds ==
                 {state.userWarehouseAccess[i].warehouseId :
                     i \in {j \in 1..Len(state.userWarehouseAccess) :
                               state.userWarehouseAccess[j].userId = state.currentUser.id}}
             Permitted(w) == w.id \in permittedIds
         IN  SelectSeq(state.warehouses, Permitted)

\* The warehouses each stock-movement dialog of ProductsView lists in its selects.
\* StockAdjustModal and StockTransferModal receive permittedWarehouses;
\* BulkTransferModal reads `warehouses` from the state itself.
StockAdjustModalWarehouses(state) == PermittedWarehouses(state)

StockTransferModalWarehouses(state) == PermittedWarehouses(state)

BulkTransferModalWarehouses(state) == state.warehouses

(***************************************************************************)
(* What ProductsView.handleAdjustStock and handleTransferStock have in     *)
(* hand once they dispatched the action to the given state: dispatch       *)
(* returns nothing, the reducer throws nothing and sets no error field,    *)
(* and the handler closes the dialog whatever the reducer did.             *)
(***************************************************************************)
HandlerOutcome(state, action) ==
    [returned |-> "undefined", thrown |-> "nothing", modal |-> "null"]

(***************************************************************************)
(* Dispatching an action: the reducer's result replaces the state.         *)
(***************************************************************************)
Apply(action, next) ==
    /\ products' = next.products
    /\ warehouses' = next.warehouses
    /\ inventory' = next.inventory
    /\ logs' = next.logs
    /\ purchaseOrders' = next.purchaseOrders
    /\ users' = next.users
    /\ userWarehouseAccess' = next.userWarehouseAccess
    /\ currentUser' = next.currentUser
    /\ uuidCount' = next.uuidCount
    /\ UNCHANGED <<documentToView, instance, apiStatus, apiResponse, pending>>
    /\ ops' = ops + 1
    /\ last' = action
    /\ prev' = State

\* The budget of dispatches still allows one.
CanDispatch == ops < MaxOps

\* The budget of the purchase-order specification still allows a dispatch.
CanDispatchOrder == ops < MaxOrderOps

(***************************************************************************)
(* Payload domains.                                                        *)
(***************************************************************************)
\* Product ids a payload may name: the initial ones (also after they were
\* deleted) and those of the products that exist now.
ProductIds == {"p1", "p2"} \cup {products[i].id : i \in 1..Len(products)}

\* Warehouse ids a payload may name: the existing ones and one that never existed.
WarehouseIds == {warehouses[i].id : i \in 1..Len(warehouses)} \cup {"w0"}

LogTypes == {"AJUSTE", "SALIDA"}

NewProductNames == <<"Martillo", "Caja">>

\* Item lists a payload may carry: 1..MaxItems items that name distinct products
\* (both dialogs offer a product only while it is not yet in the list).
ItemLists(ids, quantities) ==
    UNION { { items \in [1..n -> [productId : ids, quantity : quantities]] :
                \A i, j \in 1..n : i # j => items[i].productId # items[j].productId }
            : n \in 1..MaxItems }

\* Purchase-order ids a payload may name: PurchaseOrdersView renders its buttons
\* per existing order.
OrderIds == {purchaseOrders[i].id : i \in 1..Len(purchaseOrders)}

PurchaseOrderStatus == {"BORRADOR", "EMITIDA", "RECIBIDA", "CANCELADA"}

(***************************************************************************)
(* Actions.                                                                *)
(***************************************************************************)
AddWarehouse ==
    /\ CanDispatch
    /\ LET action == [type |-> "ADD_WAREHOUSE", name |-> "Punto de Venta"]
       IN  Apply(action, ReduceAddWarehouse(State, action))

AddProduct ==
    /\ CanDispatch
    /\ LET action == [type |-> "ADD_PRODUCT", name |-> NewProductNames[1]]
       IN  Apply(action, ReduceAddProduct(State, action))

BulkAddProducts ==
    /\ CanDispatch
    /\ \E n \in 0..MaxBulkAdd :
           LET action == [type |-> "BULK_ADD_PRODUCTS",
                          names |-> [i \in 1..n |-> NewProductNames[((i - 1) % 2) + 1]]]
           IN  Apply(action, ReduceBulkAddProducts(State, action))

UpdateProduct ==
    /\ CanDispatch
    /\ \E productId \in ProductIds :
           LET action == [type |-> "UPDATE_PRODUCT",
                          product |-> [id |-> productId, name |-> "Renombrado"]]
           IN  Apply(action, ReduceUpdateProduct(State, action))

DeleteProduct ==
    /\ CanDispatch
    /\ \E productId \in ProductIds :
           LET action == [type |-> "DELETE_PRODUCT", productId |-> productId]
           IN  Apply(action, ReduceDeleteProduct(State, action))

AdjustStock ==
    /\ CanDispatch
    /\ \E productId \in ProductIds, warehouseId \in WarehouseIds,
          quantityChange \in (-MaxQty)..MaxQty, logType \in LogTypes :
           LET action == [type |-> "ADJUST_STOCK", productId |-> productId,
                          warehouseId |-> warehouseId, quantityChange |-> quantityChange,
                          logType |-> logType]
           IN  Apply(action, ReduceAdjustStock(State, action))

TransferStock ==
    /\ CanDispatch
    /\ \E productId \in ProductIds, fromWarehouseId \in WarehouseIds,
          toWarehouseId \in WarehouseIds, quantity \in 0..MaxQty :
           LET action == [type |-> "TRANSFER_STOCK", productId |-> productId,
                          fromWarehouseId |-> fromWarehouseId, toWarehouseId |-> toWarehouseId,
                          quantity |-> quantity]
           IN  Apply(action, ReduceTransferStock(State, action))

\* BulkTransferModal.handleConfirmTransfer
BulkTransferStock ==
    /\ CanDispatch
    /\ \E items \in ItemLists(ProductIds, 1..MaxQty),
          fromWarehouseId \in WarehouseIds, toWarehouseId \in WarehouseIds :
           LET action == [type |-> "BULK_TRANSFER_STOCK", items |-> items,
                          fromWarehouseId |-> fromWarehouseId, toWarehouseId |-> toWarehouseId]
           IN  Apply(action, ReduceBulkTransferStock(State, action))

\* PurchaseOrderFormModal.handleSubmit: the line items snapshot the product's name.
AddPurchaseOrder ==
    /\ CanDispatchOrder
    /\ Len(purchaseOrders) < MaxOrders
    /\ \E chosen \in ItemLists({products[i].id : i \in 1..Len(products)}, 1..MaxQty) :
           LET action == [type |-> "ADD_PURCHASE_ORDER",
                          items |-> [k \in 1..Len(chosen) |->
                                       [productId |-> chosen[k].productId,
                                        productName |-> products[FindById(products, chosen[k].productId)].name,
                                        quantity |-> chosen[k].quantity]]]
           IN  Apply(action, ReduceAddPurchaseOrder(State, action))

\* PurchaseOrdersView.handleStatusChange: a warehouse is passed only with RECIBIDA.
UpdatePurchaseOrder ==
    /\ CanDispatchOrder
    /\ \E purchaseOrderId \in OrderIds, status \in PurchaseOrderStatus :
           \E receivedInWarehouseId \in
                   (IF status = "RECIBIDA" THEN WarehouseIds ELSE {"undefined"}) :
               LET action == [type |-> "UPDATE_PURCHASE_ORDER",
                              purchaseOrderId |-> purchaseOrderId, status |-> status,
                              receivedInWarehouseId |-> receivedInWarehouseId]
               IN  Apply(action, ReduceUpdatePurchaseOrder(State, action))

\* The warehouse lists UserFormModal can submit: any selection of the existing
\* warehouses, in the order of the list.
WarehouseIdLists ==
    { LET Chosen(w) == w.id \in S
          chosen == SelectSeq(warehouses, Chosen)
      IN  [i \in 1..Len(chosen) |-> chosen[i].id]
      : S \in SUBSET {warehouses[i].id : i \in 1..Len(warehouses)} }

Roles == {"ADMINISTRADOR", "GERENTE", "EMPLEADO"}

\* The nav offers the users view to administrators only.
UsersViewOffered == currentUser # NoUser /\ currentUser.role = "ADMINISTRADOR"

\* UsersView.handleSaveUser, for a new user
AddUser ==
    /\ CanDispatch
    /\ UsersViewOffered
    /\ \E role \in Roles \ {"ADMINISTRADOR"}, warehouseIds \in WarehouseIdLists :
           LET action == [type |-> "ADD_USER",
                          user |-> [email |-> "nuevo@dominio.com", password |-> "nuevopassword",
                                    role |-> role],
                          warehouseIds |-> warehouseIds]
           IN  Apply(action, ReduceAddUser(State, action))

\* UsersView.handleSaveUser, for an existing user
UpdateUser ==
    /\ CanDispatch
    /\ UsersViewOffered
    /\ \E i \in 1..Len(users), role \in Roles, warehouseIds \in WarehouseIdLists :
           LET action == [type |-> "UPDATE_USER",
                          user |-> [users[i] EXCEPT !.role = role],
                          warehouseIds |-> warehouseIds]
           IN  Apply(action, ReduceUpdateUser(State, action))

\* UsersView.handleDeleteUser
DeleteUser ==
    /\ CanDispatch
    /\ UsersViewOffered
    /\ \E i \in 1..Len(users) :
           LET action == [type |-> "DELETE_USER", userId |-> users[i].id]
           IN  Apply(action, ReduceDeleteUser(State, action))

\* LoginView.handleLogin: LOGIN is dispatched when the e-mail names a user and
\* the password is theirs; otherwise only the form's error message is set.
Login ==
    /\ CanDispatch
    /\ currentUser = NoUser
    /\ \E email \in {users[i].email : i \in 1..Len(users)} \cup {"nadie@dominio.com"},
          password \in {users[i].password : i \in 1..Len(users)} :
           LET found == {i \in 1..Len(users) : users[i].email = email}
               userToLogin == users[CHOOSE i \in found : \A j \in found : i <= j]
           IN  /\ found # {}
               /\ userToLogin.password = password
               /\ LET action == [type |-> "LOGIN", user |-> userToLogin]
                  IN  Apply(action, ReduceLogin(State, action))

\* App.handleLogout
Logout ==
    /\ CanDispatch
    /\ currentUser # NoUser
    /\ LET action == [type |-> "LOGOUT"]
       IN  Apply(action, ReduceLogout(State, action))

(***************************************************************************)
(* LogView and the electronic dispatch guide (GRE).  documentToView is     *)
(* LogView's state; apiStatus and apiResponse are the state of the         *)
(* GuiaRemisionContent the document modal mounts, created anew with every  *)
(* modal and discarded with it.  A call of generateGRE_API is a timer that *)
(* fires later, whether or not the component that made it still exists.   *)
(***************************************************************************)
DocumentTypes == {"CONSTANCIA", "GUIA_DESPACHO", "GUIA_REMISION"}

\* groupedLogs[transactionId]
GroupedLogs(transactionId) ==
    LET InGroup(l) == "transactionId" \in DOMAIN l /\ l.transactionId = transactionId
    IN  SelectSeq(logs, InGroup)

\* What the document buttons of the rows of LogView pass to handleOpenDocument:
\* a transaction's row offers the three documents for its group; any other row
\* offers the constancia and, for a SALIDA or an AJUSTE, the two guides.
DocumentButtons ==
    LET grouped == {i \in 1..Len(logs) : "transactionId" \in DOMAIN logs[i]}
        single == (1..Len(logs)) \ grouped
    IN  {[logEntries |-> GroupedLogs(logs[i].transactionId), type |-> t] :
            i \in grouped, t \in DocumentTypes}
        \cup {[logEntries |-> <<logs[i]>>, type |-> "CONSTANCIA"] : i \in single}
        \cup {[logEntries |-> <<logs[i]>>, type |-> t] :
                i \in {j \in single : logs[j].type \in {"SALIDA", "AJUSTE"}},
                t \in {"GUIA_DESPACHO", "GUIA_REMISION"}}

\* The nav offers the log view to administrators and managers.
LogViewOffered == currentUser # NoUser /\ currentUser.role \in {"ADMINISTRADOR", "GERENTE"}

\* logEntries.filter(l => l.type === 'SALIDA')
salidaLogs(logEntries) ==
    LET IsSalida(l) == l.type = "SALIDA"
    IN  SelectSeq(logEntries, IsSalida)

\* The emit button, shown by every guide whatever its entries.
EmitOfferedByAnyGuide ==
    documentToView.type = "GUIA_REMISION"

\* GuiaRemisionContent renders its emit button: the modal shows a GUIA_REMISION
\* and mainLog = salidaLogs[0] exists (otherwise only an error text is returned).
EmitOffered ==
    /\ documentToView.type = "GUIA_REMISION"
    /\ salidaLogs(documentToView.logEntries) # <<>>

\* items of the payload of handleEmitirGRE
GreItems(logEntries) ==
    LET salida == salidaLogs(logEntries)
    IN  [i \in 1..Len(salida) |->
            [descripcion |-> salida[i].productName,
             cantidad |-> IF salida[i].quantityChange < 0 THEN -salida[i].quantityChange
                          ELSE salida[i].quantityChange]]

\* LogView.handleOpenDocument: the modal covers the page until it is closed.
OpenDocument ==
    /\ instance < MaxDocuments
    /\ LogViewOffered
    /\ documentToView = NoDocument
    /\ \E button \in DocumentButtons :
           /\ documentToView' = button
           /\ instance' = instance + 1
           /\ apiStatus' = "idle"
           /\ apiResponse' = NoResponse
    /\ UNCHANGED <<products, warehouses, inventory, logs, purchaseOrders, users,
                   userWarehouseAccess, currentUser, uuidCount, pending, ops, last, prev>>

\* onClose of MovementDocumentModal: the component and its state are gone; a
\* call it made stays in flight.
CloseDocument ==
    /\ documentToView # NoDocument
    /\ documentToView' = NoDocument
    /\ apiStatus' = "idle"
    /\ apiResponse' = NoResponse
    /\ UNCHANGED <<products, warehouses, inventory, logs, purchaseOrders, users,
                   userWarehouseAccess, currentUser, uuidCount, instance, pending,
                   ops, last, prev>>

\* GuiaRemisionContent.handleEmitirGRE, up to its await
EmitirGRE ==
    /\ EmitOffered
    /\ apiStatus # "loading"
    /\ apiStatus' = "loading"
    /\ pending' = pending \cup {[instance |-> instance,
                                 logEntries |-> documentToView.logEntries,
                                 items |-> GreItems(documentToView.logEntries)]}
    /\ UNCHANGED <<products, warehouses, inventory, logs, purchaseOrders, users,
                   userWarehouseAccess, currentUser, uuidCount, documentToView, instance,
                   apiResponse, ops, last, prev>>

\* What generateGRE_API resolves with: { success: true, ticket, cdr } or
\* { success: false, ticket, errors }.
GREResponse(success) ==
    [success |-> success, body |-> IF success THEN "cdr" ELSE "errors"]

\* The timer fires and the failure is dropped: nothing is set for it.
GreResolveDropsFailure ==
    \E call \in pending, success \in BOOLEAN :
        /\ pending' = pending \ {call}
        /\ IF documentToView # NoDocument /\ call.instance = instance /\ success
           THEN /\ apiResponse' = GREResponse(success)
                /\ apiStatus' = "success"
           ELSE UNCHANGED <<apiResponse, apiStatus>>
        /\ UNCHANGED <<products, warehouses, inventory, logs, purchaseOrders, users,
                       userWarehouseAccess, currentUser, uuidCount, documentToView, instance,
                       ops, last, prev>>

\* The timer fires and a failure takes the newest log entry back.
GreResolveRollsBack ==
    \E call \in pending, success \in BOOLEAN :
        /\ pending' = pending \ {call}
        /\ IF documentToView # NoDocument /\ call.instance = instance
           THEN /\ apiResponse' = GREResponse(success)
                /\ apiStatus' = IF apiResponse'.success THEN "success" ELSE "error"
           ELSE UNCHANGED <<apiResponse, apiStatus>>
        /\ logs' = IF success THEN logs ELSE Tail(logs)
        /\ UNCHANGED <<products, warehouses, inventory, purchaseOrders, users,
                       userWarehouseAccess, currentUser, uuidCount, documentToView, instance,
                       ops, last, prev>>

\* The timer of generateGRE_API fires: the promise resolves, with success or
\* with a controlled failure, and handleEmitirGRE goes on after its await.  Its
\* setApiResponse and setApiStatus reach the component that made the call, if
\* that one is still mounted.
GreResolve ==
    \E call \in pending, success \in BOOLEAN :
        /\ pending' = pending \ {call}
        /\ IF documentToView # NoDocument /\ call.instance = instance
           THEN /\ apiResponse' = GREResponse(success)
                /\ apiStatus' = IF apiResponse'.success THEN "success" ELSE "error"
           ELSE UNCHANGED <<apiResponse, apiStatus>>
        /\ UNCHANGED <<products, warehouses, inventory, logs, purchaseOrders, users,
                       userWarehouseAccess, currentUser, uuidCount, documentToView, instance,
                       ops, last, prev>>

\* The budget of the guide specification still allows a dispatch, and no modal
\* covers the page.
CanDispatchGre == ops < MaxGreOps /\ documentToView = NoDocument

\* ProductsView.handleAdjustStock for an exit: a SALIDA of some units of a
\* product from one of the warehouses.
RegisterExit ==
    /\ CanDispatchGre
    /\ \E productId \in ProductIds, i \in 1..Len(warehouses), quantity \in 1..MaxQty :
           LET action == [type |-> "ADJUST_STOCK", productId |-> productId,
                          warehouseId |-> warehouses[i].id, quantityChange |-> -quantity,
                          logType |-> "SALIDA"]
           IN  Apply(action, ReduceAdjustStock(State, action))

Init ==
    /\ products = initialState.products
    /\ warehouses = initialState.warehouses
    /\ inventory = initialState.inventory
    /\ logs = initialState.logs
    /\ purchaseOrders = initialState.purchaseOrders
    /\ users = initialState.users
    /\ userWarehouseAccess = initialState.userWarehouseAccess
    /\ currentUser = initialState.currentUser
    /\ uuidCount = initialState.uuidCount
    /\ documentToView = NoDocument
    /\ instance = 0
    /\ apiStatus = "idle"
    /\ apiResponse = NoResponse
    /\ pending = {}
    /\ ops = 0
    /\ last = [type |-> "INIT"]
    /\ prev = initialState

Next ==
    \/ AddWarehouse
    \/ AddProduct
    \/ BulkAddProducts
    \/ UpdateProduct
    \/ DeleteProduct
    \/ AdjustStock
    \/ TransferStock

Spec == Init /\ [][Next]_vars

\* Bulk transfers, between deletions of products.
NextBulk ==
    \/ BulkTransferStock
    \/ DeleteProduct

SpecBulk == Init /\ [][NextBulk]_vars

\* The life cycle of purchase orders.
NextOrder ==
    \/ AddPurchaseOrder
    \/ UpdatePurchaseOrder

SpecOrder == Init /\ [][NextOrder]_vars

\* Who is signed in and which warehouses they may use.
NextAccess ==
    \/ Login
    \/ Logout
    \/ AddUser
    \/ UpdateUser
    \/ DeleteUser
    \/ AddWarehouse

SpecAccess == Init /\ [][NextAccess]_vars

\* Documents and guides, between stock movements.
NextGre ==
    \/ OpenDocument
    \/ CloseDocument
    \/ EmitirGRE
    \/ GreResolve
    \/ (CanDispatchGre /\ AdjustStock)
    \/ (CanDispatchGre /\ TransferStock)

SpecGre == Init /\ [][NextGre]_vars

\* Documents and guides, between exits of stock.
NextGreLive ==
    \/ OpenDocument
    \/ CloseDocument
    \/ EmitirGRE
    \/ GreResolve
    \/ RegisterExit

\* The timer of a call in flight fires after its delay (setTimeout, 1.5 s),
\* whatever else happens.
LiveSpecGre == Init /\ [][NextGreLive]_vars /\ WF_vars(GreResolve)

(***************************************************************************)
(* Observations of a state.                                                *)
(***************************************************************************)
\* inventory.find(i => i.productId === p && i.warehouseId === w)?.quantity || 0
QuantityOf(inv, productId, warehouseId) ==
    LET i == InventoryIndex(inv, productId, warehouseId)
    IN  IF i = 0 THEN 0 ELSE inv[i].quantity

\* inventory.filter(i => i.productId === p).reduce((sum, item) => sum + item.quantity, 0)
RECURSIVE TotalOf(_, _)
TotalOf(inv, productId) ==
    IF inv = <<>> THEN 0
    ELSE (IF Head(inv).productId = productId THEN Head(inv).quantity ELSE 0)
         + TotalOf(Tail(inv), productId)

\* The name of the warehouse with the given id in state s.
WarehouseName(s, warehouseId) == s.warehouses[FindById(s.warehouses, warehouseId)].name

Exists(arr, id) == FindById(arr, id) > 0

\* The entries the last action prepended to the log.
NewLogs == SubSeq(logs, 1, Len(logs) - Len(prev.logs))

\* The log before the last action is the tail of the log after it.
OldLogsKept ==
    /\ Len(logs) >= Len(prev.logs)
    /\ SubSeq(logs, Len(logs) - Len(prev.logs) + 1, Len(logs)) = prev.logs

\* The last action left the whole state as it was.
StateUnchanged ==
    /\ products = prev.products
    /\ warehouses = prev.warehouses
    /\ inventory = prev.inventory
    /\ logs = prev.logs
    /\ purchaseOrders = prev.purchaseOrders

\* The last action was a TRANSFER_STOCK that meets none of the reducer's
\* reasons to reject it.
TransferApplied ==
    /\ last.type = "TRANSFER_STOCK"
    /\ Exists(prev.products, last.productId)
    /\ Exists(prev.warehouses, last.fromWarehouseId)
    /\ Exists(prev.warehouses, last.toWarehouseId)
    /\ last.quantity > 0
    /\ InventoryIndex(prev.inventory, last.productId, last.fromWarehouseId) > 0
    /\ QuantityOf(prev.inventory, last.productId, last.fromWarehouseId) >= last.quantity

(***************************************************************************)
(* C1.  In every reachable state every inventory entry has quantity >= 0.  *)
(***************************************************************************)
QuantityNeverNegative ==
    \A i \in 1..Len(inventory) : inventory[i].quantity >= 0

\* An applied adjustment that removed more than the warehouse held.
QuantityNeverNegativeWitness ==
    /\ last.type = "ADJUST_STOCK"
    /\ Exists(prev.products, last.productId)
    /\ Exists(prev.warehouses, last.warehouseId)
    /\ QuantityOf(prev.inventory, last.productId, last.warehouseId) + last.quantityChange < 0
    /\ Len(logs) = Len(prev.logs) + 1

(***************************************************************************)
(* C2.  For every product, the sum of its quantities over all warehouses   *)
(* is the same before and after any TRANSFER_STOCK, applied or rejected.   *)
(***************************************************************************)
TransferConservesTotal ==
    last.type = "TRANSFER_STOCK" =>
        \A productId \in ProductIds \cup {prev.products[i].id : i \in 1..Len(prev.products)} :
            TotalOf(inventory, productId) = TotalOf(prev.inventory, productId)

\* An applied transfer between two different warehouses.
TransferConservesTotalWitness ==
    /\ TransferApplied
    /\ inventory # prev.inventory

(***************************************************************************)
(* C3.  For every applied TRANSFER_STOCK the source quantity afterwards is *)
(* the quantity before minus the requested quantity and the destination    *)
(* quantity afterwards is the quantity before plus the requested quantity. *)
(***************************************************************************)
TransferMovesQuantity ==
    TransferApplied =>
        /\ QuantityOf(inventory, last.productId, last.fromWarehouseId)
             = QuantityOf(prev.inventory, last.productId, last.fromWarehouseId) - last.quantity
        /\ QuantityOf(inventory, last.productId, last.toWarehouseId)
             = QuantityOf(prev.inventory, last.productId, last.toWarehouseId) + last.quantity

(***************************************************************************)
(* C4.  A TRANSFER_STOCK whose quantity is <= 0, whose product or either   *)
(* warehouse does not exist, or whose source entry is missing or holds     *)
(* less than the requested quantity leaves the whole state unchanged.      *)
(***************************************************************************)
InvalidTransferLeavesState ==
    (/\ last.type = "TRANSFER_STOCK"
     /\ \/ last.quantity <= 0
        \/ ~Exists(prev.products, last.productId)
        \/ ~Exists(prev.warehouses, last.fromWarehouseId)
        \/ ~Exists(prev.warehouses, last.toWarehouseId)
        \/ InventoryIndex(prev.inventory, last.productId, last.fromWarehouseId) = 0
        \/ QuantityOf(prev.inventory, last.productId, last.fromWarehouseId) < last.quantity)
    => StateUnchanged

\* A transfer between two existing warehouses that asks for more than the
\* source entry holds.
InvalidTransferLeavesStateWitness ==
    /\ last.type = "TRANSFER_STOCK"
    /\ Exists(prev.products, last.productId)
    /\ Exists(prev.warehouses, last.fromWarehouseId)
    /\ Exists(prev.warehouses, last.toWarehouseId)
    /\ last.fromWarehouseId # last.toWarehouseId
    /\ InventoryIndex(prev.inventory, last.productId, last.fromWarehouseId) > 0
    /\ QuantityOf(prev.inventory, last.productId, last.fromWarehouseId) > 0
    /\ QuantityOf(prev.inventory, last.productId, last.fromWarehouseId) < last.quantity

(***************************************************************************)
(* C5.  A TRANSFER_STOCK whose fromWarehouseId equals its toWarehouseId is *)
(* rejected before any mutation: inventory is unchanged and no log entry   *)
(* is appended.                                                            *)
(***************************************************************************)
SameWarehouseTransferRejected ==
    (last.type = "TRANSFER_STOCK" /\ last.fromWarehouseId = last.toWarehouseId)
    => (inventory = prev.inventory /\ logs = prev.logs)

(***************************************************************************)
(* C6.  Every applied TRANSFER_STOCK of quantity q appends exactly two log *)
(* entries: a SALIDA with quantityChange = -q naming the source warehouse  *)
(* and an ENTRADA with quantityChange = +q naming the destination.         *)
(***************************************************************************)
TransferAppendsBalancedPair ==
    TransferApplied =>
        /\ OldLogsKept
        /\ Len(NewLogs) = 2
        /\ \E i, j \in 1..2 :
            /\ i # j
            /\ NewLogs[i].type = "SALIDA"
            /\ NewLogs[i].quantityChange = -last.quantity
            /\ NewLogs[i].warehouseName = WarehouseName(prev, last.fromWarehouseId)
            /\ NewLogs[j].type = "ENTRADA"
            /\ NewLogs[j].quantityChange = last.quantity
            /\ NewLogs[j].warehouseName = WarehouseName(prev, last.toWarehouseId)
            /\ -NewLogs[i].quantityChange = NewLogs[j].quantityChange

\* An applied transfer of more than one unit into a warehouse that had no entry.
TransferAppendsBalancedPairWitness ==
    /\ TransferApplied
    /\ last.quantity > 1
    /\ last.fromWarehouseId # last.toWarehouseId
    /\ InventoryIndex(prev.inventory, last.productId, last.toWarehouseId) = 0
    /\ Len(logs) > Len(prev.logs)

(***************************************************************************)
(* C7.  The two log entries appended by one applied TRANSFER_STOCK both    *)
(* carry a transactionId, and it is the same value on both.                *)
(***************************************************************************)
TransferLogsShareTransactionId ==
    TransferApplied =>
        /\ Len(NewLogs) = 2
        /\ "transactionId" \in DOMAIN NewLogs[1]
        /\ "transactionId" \in DOMAIN NewLogs[2]
        /\ NewLogs[1].transactionId = NewLogs[2].transactionId

(***************************************************************************)
(* C8.  A BULK_TRANSFER_STOCK in which at least one item requests more     *)
(* than the source warehouse holds of that product leaves inventory and    *)
(* logs unchanged: no item of the batch is applied.                        *)
(***************************************************************************)
BulkInsufficientLeavesState ==
    (/\ last.type = "BULK_TRANSFER_STOCK"
     /\ \E k \in 1..Len(last.items) :
            QuantityOf(prev.inventory, last.items[k].productId, last.fromWarehouseId)
                < last.items[k].quantity)
    => (inventory = prev.inventory /\ logs = prev.logs)

\* A batch of two items between two different existing warehouses: the source
\* holds enough of the first item and too little of the second.
BulkInsufficientLeavesStateWitness ==
    /\ last.type = "BULK_TRANSFER_STOCK"
    /\ last.fromWarehouseId # last.toWarehouseId
    /\ Exists(prev.warehouses, last.fromWarehouseId)
    /\ Exists(prev.warehouses, last.toWarehouseId)
    /\ Len(last.items) = 2
    /\ \A k \in 1..2 :
        /\ Exists(prev.products, last.items[k].productId)
        /\ InventoryIndex(prev.inventory, last.items[k].productId, last.fromWarehouseId) > 0
    /\ QuantityOf(prev.inventory, last.items[1].productId, last.fromWarehouseId)
         >= last.items[1].quantity
    /\ QuantityOf(prev.inventory, last.items[2].productId, last.fromWarehouseId)
         < last.items[2].quantity

(***************************************************************************)
(* C9.  A BULK_TRANSFER_STOCK of N items that all have sufficient stock at *)
(* the source warehouse is applied in full: each item's quantity is moved  *)
(* from source to destination, exactly 2 x N log entries are appended (one *)
(* SALIDA and one ENTRADA per item) and all share one transactionId.       *)
(***************************************************************************)
\* The last action was a bulk transfer between two different existing
\* warehouses whose items all name existing products, ask for a positive
\* quantity and find that quantity in the source warehouse.
BulkAllSufficient ==
    /\ last.type = "BULK_TRANSFER_STOCK"
    /\ last.fromWarehouseId # last.toWarehouseId
    /\ Exists(prev.warehouses, last.fromWarehouseId)
    /\ Exists(prev.warehouses, last.toWarehouseId)
    /\ \A k \in 1..Len(last.items) :
        /\ Exists(prev.products, last.items[k].productId)
        /\ last.items[k].quantity > 0
        /\ InventoryIndex(prev.inventory, last.items[k].productId, last.fromWarehouseId) > 0
        /\ QuantityOf(prev.inventory, last.items[k].productId, last.fromWarehouseId)
             >= last.items[k].quantity

BulkAppliedInFull ==
    BulkAllSufficient =>
        /\ \A k \in 1..Len(last.items) :
            LET item == last.items[k]
                name == prev.products[FindById(prev.products, item.productId)].name
            IN  /\ QuantityOf(inventory, item.productId, last.fromWarehouseId)
                     = QuantityOf(prev.inventory, item.productId, last.fromWarehouseId)
                         - item.quantity
                /\ QuantityOf(inventory, item.productId, last.toWarehouseId)
                     = QuantityOf(prev.inventory, item.productId, last.toWarehouseId)
                         + item.quantity
                /\ \E i \in 1..Len(NewLogs) :
                    /\ NewLogs[i].type = "SALIDA"
                    /\ NewLogs[i].productName = name
                    /\ NewLogs[i].quantityChange = -item.quantity
                    /\ NewLogs[i].warehouseName = WarehouseName(prev, last.fromWarehouseId)
                /\ \E i \in 1..Len(NewLogs) :
                    /\ NewLogs[i].type = "ENTRADA"
                    /\ NewLogs[i].productName = name
                    /\ NewLogs[i].quantityChange = item.quantity
                    /\ NewLogs[i].warehouseName = WarehouseName(prev, last.toWarehouseId)
        /\ OldLogsKept
        /\ Len(NewLogs) = 2 * Len(last.items)
        /\ Cardinality({i \in 1..Len(NewLogs) : NewLogs[i].type = "SALIDA"}) = Len(last.items)
        /\ Cardinality({i \in 1..Len(NewLogs) : NewLogs[i].type = "ENTRADA"}) = Len(last.items)
        /\ \A i \in 1..Len(NewLogs) :
            /\ "transactionId" \in DOMAIN NewLogs[i]
            /\ NewLogs[i].transactionId = NewLogs[1].transactionId

\* An applied batch of two items.
BulkAppliedInFullWitness ==
    /\ BulkAllSufficient
    /\ Len(last.items) = 2
    /\ Len(logs) = Len(prev.logs) + 4

(***************************************************************************)
(* C10.  Receiving a purchase order whose status is EMITIDA adds, for each *)
(* line item, the item's quantity to the ledger quantity of (productId,    *)
(* destination warehouse), appends one ENTRADA log entry per line item and *)
(* sets the order's status to RECIBIDA.                                    *)
(***************************************************************************)
\* The last action asked to receive an existing order whose status was
\* EMITIDA into an existing warehouse.
ReceivedIssuedOrder ==
    /\ last.type = "UPDATE_PURCHASE_ORDER"
    /\ last.status = "RECIBIDA"
    /\ Exists(prev.purchaseOrders, last.purchaseOrderId)
    /\ prev.purchaseOrders[FindById(prev.purchaseOrders, last.purchaseOrderId)].status
         = "EMITIDA"
    /\ Exists(prev.warehouses, last.receivedInWarehouseId)

ReceiptPostsEveryLine ==
    ReceivedIssuedOrder =>
        LET o == FindById(prev.purchaseOrders, last.purchaseOrderId)
            items == prev.purchaseOrders[o].items
        IN  /\ \A k \in 1..Len(items) :
                /\ QuantityOf(inventory, items[k].productId, last.receivedInWarehouseId)
                     = QuantityOf(prev.inventory, items[k].productId,
                                  last.receivedInWarehouseId) + items[k].quantity
                /\ \E i \in 1..Len(NewLogs) :
                    /\ NewLogs[i].productName = items[k].productName
                    /\ NewLogs[i].quantityChange = items[k].quantity
                    /\ NewLogs[i].warehouseName
                         = WarehouseName(prev, last.receivedInWarehouseId)
            /\ OldLogsKept
            /\ Len(NewLogs) = Len(items)
            /\ \A i \in 1..Len(NewLogs) : NewLogs[i].type = "ENTRADA"
            /\ purchaseOrders[o].status = "RECIBIDA"

\* A received order of two line items.
ReceiptPostsEveryLineWitness ==
    /\ ReceivedIssuedOrder
    /\ Len(prev.purchaseOrders[FindById(prev.purchaseOrders, last.purchaseOrderId)].items) = 2
    /\ purchaseOrders[FindById(purchaseOrders, last.purchaseOrderId)].status = "RECIBIDA"

(***************************************************************************)
(* C11.  Receiving a purchase order whose status is not EMITIDA (BORRADOR, *)
(* RECIBIDA or CANCELADA) changes neither inventory, logs nor the order's  *)
(* status; receiving an order a second time posts nothing again.           *)
(***************************************************************************)
\* The status the order named by the last action had before the action.
StatusBefore ==
    prev.purchaseOrders[FindById(prev.purchaseOrders, last.purchaseOrderId)].status

\* The last action asked to receive an existing order whose status was not EMITIDA.
ReceivedNonIssuedOrder ==
    /\ last.type = "UPDATE_PURCHASE_ORDER"
    /\ last.status = "RECIBIDA"
    /\ Exists(prev.purchaseOrders, last.purchaseOrderId)
    /\ StatusBefore # "EMITIDA"

ReceiptOfNonIssuedLeavesState ==
    ReceivedNonIssuedOrder =>
        /\ inventory = prev.inventory
        /\ logs = prev.logs
        /\ purchaseOrders[FindById(purchaseOrders, last.purchaseOrderId)].status = StatusBefore

\* A second receipt, into an existing warehouse, of an order already received.
ReceiptOfNonIssuedLeavesStateWitness ==
    /\ ReceivedNonIssuedOrder
    /\ StatusBefore = "RECIBIDA"
    /\ Exists(prev.warehouses, last.receivedInWarehouseId)
    /\ \E i \in 1..Len(prev.logs) : "transactionId" \in DOMAIN prev.logs[i]

(***************************************************************************)
(* C12.  RECIBIDA and CANCELADA are terminal: no action changes the status *)
(* of an order that has one of them, and the only status changes that ever *)
(* occur are BORRADOR->EMITIDA, EMITIDA->RECIBIDA, BORRADOR->CANCELADA and *)
(* EMITIDA->CANCELADA.  Orders are never removed.                          *)
(***************************************************************************)
OrderStatusChangesAllowed ==
    /\ Len(purchaseOrders) >= Len(prev.purchaseOrders)
    /\ \A i \in 1..Len(prev.purchaseOrders) :
        /\ purchaseOrders[i].id = prev.purchaseOrders[i].id
        /\ \/ purchaseOrders[i].status = prev.purchaseOrders[i].status
           \/ <<prev.purchaseOrders[i].status, purchaseOrders[i].status>>
                \in {<<"BORRADOR", "EMITIDA">>, <<"EMITIDA", "RECIBIDA">>,
                     <<"BORRADOR", "CANCELADA">>, <<"EMITIDA", "CANCELADA">>}

\* An action asked to move an order out of a terminal status.
OrderStatusChangesAllowedWitness ==
    /\ last.type = "UPDATE_PURCHASE_ORDER"
    /\ Exists(prev.purchaseOrders, last.purchaseOrderId)
    /\ StatusBefore \in {"RECIBIDA", "CANCELADA"}
    /\ last.status # StatusBefore
    /\ last.status = "RECIBIDA" => Exists(prev.warehouses, last.receivedInWarehouseId)

(***************************************************************************)
(* C13.  Creating an order and the transitions BORRADOR->EMITIDA,          *)
(* BORRADOR->CANCELADA and EMITIDA->CANCELADA leave inventory and logs     *)
(* unchanged.                                                              *)
(***************************************************************************)
\* The last action created an order or asked for one of the three
\* transitions that are not the receipt.
OrderOperationWithoutReceipt ==
    \/ last.type = "ADD_PURCHASE_ORDER"
    \/ /\ last.type = "UPDATE_PURCHASE_ORDER"
       /\ Exists(prev.purchaseOrders, last.purchaseOrderId)
       /\ <<StatusBefore, last.status>>
            \in {<<"BORRADOR", "EMITIDA">>, <<"BORRADOR", "CANCELADA">>,
                 <<"EMITIDA", "CANCELADA">>}

OrderOperationsLeaveLedger ==
    OrderOperationWithoutReceipt => (inventory = prev.inventory /\ logs = prev.logs)

\* An issued order was cancelled.
OrderOperationsLeaveLedgerWitness ==
    /\ last.type = "UPDATE_PURCHASE_ORDER"
    /\ Exists(prev.purchaseOrders, last.purchaseOrderId)
    /\ StatusBefore = "EMITIDA"
    /\ purchaseOrders[FindById(purchaseOrders, last.purchaseOrderId)].status = "CANCELADA"

(***************************************************************************)
(* C14.  ADJUST_STOCK with quantityChange = 0 is rejected by the reducer:  *)
(* inventory is unchanged and no log entry is appended.                    *)
(***************************************************************************)
ZeroAdjustmentRejected ==
    (last.type = "ADJUST_STOCK" /\ last.quantityChange = 0)
    => (inventory = prev.inventory /\ logs = prev.logs)

(***************************************************************************)
(* C15.  ADJUST_STOCK naming a product that is not in products or a        *)
(* warehouse that is not in warehouses leaves the whole state unchanged.   *)
(***************************************************************************)
AdjustOfUnknownLeavesState ==
    (/\ last.type = "ADJUST_STOCK"
     /\ \/ ~Exists(prev.products, last.productId)
        \/ ~Exists(prev.warehouses, last.warehouseId))
    => StateUnchanged

\* A positive adjustment of an existing product in a warehouse that does not exist.
AdjustOfUnknownLeavesStateWitness ==
    /\ last.type = "ADJUST_STOCK"
    /\ Exists(prev.products, last.productId)
    /\ ~Exists(prev.warehouses, last.warehouseId)
    /\ last.quantityChange > 0

(***************************************************************************)
(* C16.  Every applied ADJUST_STOCK appends exactly one log entry, which   *)
(* carries the type and the quantityChange of the action and has no        *)
(* transactionId.                                                          *)
(***************************************************************************)
\* The last action was an ADJUST_STOCK that names an existing product and an
\* existing warehouse.
AdjustApplied ==
    /\ last.type = "ADJUST_STOCK"
    /\ Exists(prev.products, last.productId)
    /\ Exists(prev.warehouses, last.warehouseId)

AdjustAppendsOneEntry ==
    AdjustApplied =>
        /\ OldLogsKept
        /\ Len(NewLogs) = 1
        /\ NewLogs[1].type = last.logType
        /\ NewLogs[1].quantityChange = last.quantityChange
        /\ "transactionId" \notin DOMAIN NewLogs[1]

\* An applied removal logged as SALIDA.
AdjustAppendsOneEntryWitness ==
    /\ AdjustApplied
    /\ last.logType = "SALIDA"
    /\ last.quantityChange < 0
    /\ inventory # prev.inventory

(***************************************************************************)
(* C17.  For every log entry appended by ADJUST_STOCK or TRANSFER_STOCK,   *)
(* its quantityChange equals the change of the ledger quantity of that     *)
(* product in that warehouse caused by the action (quantity after minus    *)
(* quantity before, an absent entry counting as 0).                        *)
(***************************************************************************)
\* The change of the ledger quantity of a pair caused by the last action.
LedgerChange(productId, warehouseId) ==
    QuantityOf(inventory, productId, warehouseId)
        - QuantityOf(prev.inventory, productId, warehouseId)

LogMatchesLedgerChange ==
    /\ AdjustApplied =>
            \A i \in 1..Len(NewLogs) :
                NewLogs[i].quantityChange = LedgerChange(last.productId, last.warehouseId)
    /\ TransferApplied =>
            \A i \in 1..Len(NewLogs) :
                NewLogs[i].quantityChange
                    = LedgerChange(last.productId,
                                   IF NewLogs[i].type = "SALIDA"
                                   THEN last.fromWarehouseId ELSE last.toWarehouseId)

(***************************************************************************)
(* C18.  Every action that changes inventory appends at least one log      *)
(* entry in the same step.                                                 *)
(***************************************************************************)
InventoryChangeIsLogged ==
    inventory # prev.inventory => Len(logs) > Len(prev.logs)

(***************************************************************************)
(* C19.  For every reducer action the log afterwards is zero or more new   *)
(* entries followed by the complete log before the action, unchanged and   *)
(* in the same order, also when a product the log names is updated or      *)
(* deleted.                                                                *)
(***************************************************************************)
LogIsAppendOnly == OldLogsKept

\* A product that the log names was renamed or deleted.
LogIsAppendOnlyWitness ==
    /\ last.type \in {"UPDATE_PRODUCT", "DELETE_PRODUCT"}
    /\ products # prev.products
    /\ LET id == IF last.type = "UPDATE_PRODUCT" THEN last.product.id ELSE last.productId
       IN  \E i \in 1..Len(prev.logs) :
               prev.logs[i].productName = prev.products[FindById(prev.products, id)].name

(***************************************************************************)
(* C20.  ADD_PRODUCT appends exactly one CREACION log entry with           *)
(* quantityChange = 0 and newQuantityInWarehouse = 0 and leaves inventory  *)
(* unchanged; BULK_ADD_PRODUCTS of N products appends exactly N such       *)
(* entries and leaves inventory unchanged.                                 *)
(***************************************************************************)
\* The number of products the last action created.
ProductsCreated ==
    IF last.type = "ADD_PRODUCT" THEN 1 ELSE Len(last.names)

CreationIsLoggedOnly ==
    last.type \in {"ADD_PRODUCT", "BULK_ADD_PRODUCTS"} =>
        /\ inventory = prev.inventory
        /\ OldLogsKept
        /\ Len(NewLogs) = ProductsCreated
        /\ \A i \in 1..Len(NewLogs) :
            /\ NewLogs[i].type = "CREACION"
            /\ NewLogs[i].quantityChange = 0
            /\ NewLogs[i].newQuantityInWarehouse = 0

\* A bulk load of two products.
CreationIsLoggedOnlyWitness ==
    /\ last.type = "BULK_ADD_PRODUCTS"
    /\ Len(last.names) = 2
    /\ Len(products) = Len(prev.products) + 2

(***************************************************************************)
(* C21.  DELETE_PRODUCT(p) removes p from products and every inventory     *)
(* entry whose productId is p, leaves the inventory entries of every other *)
(* product unchanged, and appends no log entry.                            *)
(***************************************************************************)
DeleteCascadesWithoutLog ==
    last.type = "DELETE_PRODUCT" =>
        /\ ~Exists(products, last.productId)
        /\ \A i \in 1..Len(prev.products) :
                prev.products[i].id # last.productId
                    => \E j \in 1..Len(products) : products[j] = prev.products[i]
        /\ \A j \in 1..Len(inventory) :
            /\ inventory[j].productId # last.productId
            /\ \E i \in 1..Len(prev.inventory) : prev.inventory[i] = inventory[j]
        /\ \A i \in 1..Len(prev.inventory) :
                prev.inventory[i].productId # last.productId
                    => \E j \in 1..Len(inventory) : inventory[j] = prev.inventory[i]
        /\ logs = prev.logs

\* The deletion of a product that had stock, next to a product that keeps its own.
DeleteCascadesWithoutLogWitness ==
    /\ last.type = "DELETE_PRODUCT"
    /\ Exists(prev.products, last.productId)
    /\ TotalOf(prev.inventory, last.productId) > 0
    /\ Len(inventory) > 0
    /\ Len(inventory) < Len(prev.inventory)

(***************************************************************************)
(* C25.  For every applied ADJUST_STOCK with change d on a pair whose      *)
(* quantity is c (0 when no entry exists), the quantity of that pair       *)
(* afterwards is max(0, c + d).                                            *)
(***************************************************************************)
AdjustGivesClampedSum ==
    AdjustApplied =>
        LET c == QuantityOf(prev.inventory, last.productId, last.warehouseId)
            d == last.quantityChange
        IN  QuantityOf(inventory, last.productId, last.warehouseId)
                = (IF c + d > 0 THEN c + d ELSE 0)

\* The largest positive adjustment of a pair that had no entry.
AdjustGivesClampedSumWitness ==
    /\ AdjustApplied
    /\ InventoryIndex(prev.inventory, last.productId, last.warehouseId) = 0
    /\ last.quantityChange = MaxQty
    /\ QuantityOf(inventory, last.productId, last.warehouseId) = MaxQty

(***************************************************************************)
(* C26.  Every log entry appended by ADJUST_STOCK or TRANSFER_STOCK has    *)
(* newQuantityInWarehouse equal to the ledger quantity of that product in  *)
(* the warehouse the entry names, in the state that results from the       *)
(* action (0 when no entry exists).                                        *)
(***************************************************************************)
LogCarriesResultingQuantity ==
    /\ AdjustApplied =>
            \A i \in 1..Len(NewLogs) :
                NewLogs[i].newQuantityInWarehouse
                    = QuantityOf(inventory, last.productId, last.warehouseId)
    /\ TransferApplied =>
            \A i \in 1..Len(NewLogs) :
                NewLogs[i].newQuantityInWarehouse
                    = QuantityOf(inventory, last.productId,
                                 IF NewLogs[i].type = "SALIDA"
                                 THEN last.fromWarehouseId ELSE last.toWarehouseId)

(***************************************************************************)
(* C27.  ADJUST_STOCK on a pair that has no inventory entry creates one    *)
(* only when the resulting quantity is > 0; an entry whose quantity        *)
(* reaches 0 through ADJUST_STOCK or TRANSFER_STOCK stays in inventory     *)
(* with quantity 0; only DELETE_PRODUCT ever removes an inventory entry.   *)
(***************************************************************************)
EntriesPersist ==
    /\ (AdjustApplied
            /\ InventoryIndex(prev.inventory, last.productId, last.warehouseId) = 0
            /\ InventoryIndex(inventory, last.productId, last.warehouseId) > 0)
        => QuantityOf(inventory, last.productId, last.warehouseId) > 0
    /\ last.type # "DELETE_PRODUCT" =>
            \A i \in 1..Len(prev.inventory) :
                InventoryIndex(inventory, prev.inventory[i].productId,
                               prev.inventory[i].warehouseId) > 0

\* An adjustment or a transfer emptied an entry that held stock.
EntriesPersistWitness ==
    /\ last.type \in {"ADJUST_STOCK", "TRANSFER_STOCK"}
    /\ \E i \in 1..Len(prev.inventory) :
        /\ prev.inventory[i].quantity > 0
        /\ InventoryIndex(inventory, prev.inventory[i].productId,
                          prev.inventory[i].warehouseId) > 0
        /\ QuantityOf(inventory, prev.inventory[i].productId,
                      prev.inventory[i].warehouseId) = 0

(***************************************************************************)
(* C28.  Inventory has at most one entry per (productId, warehouseId)      *)
(* pair in every reachable state, also after transfers whose source and    *)
(* destination are the same warehouse.                                     *)
(***************************************************************************)
OneEntryPerPair ==
    \A i, j \in 1..Len(inventory) :
        (/\ inventory[i].productId = inventory[j].productId
         /\ inventory[i].warehouseId = inventory[j].warehouseId) => i = j

\* A transfer created the destination entry, or ran within one warehouse.
OneEntryPerPairWitness ==
    /\ TransferApplied
    /\ \/ Len(inventory) > Len(prev.inventory)
       \/ last.fromWarehouseId = last.toWarehouseId

(***************************************************************************)
(* C24.  Every rejected movement (unknown product or warehouse, zero       *)
(* adjustment, non-positive or same-warehouse transfer, insufficient       *)
(* source stock) produces an outcome that the caller can tell from the     *)
(* outcome of a successful operation.                                      *)
(***************************************************************************)
\* The last action was a movement of one of the kinds that are to be rejected.
MovementToReject ==
    \/ /\ last.type = "ADJUST_STOCK"
       /\ \/ ~Exists(prev.products, last.productId)
          \/ ~Exists(prev.warehouses, last.warehouseId)
          \/ last.quantityChange = 0
    \/ /\ last.type = "TRANSFER_STOCK"
       /\ \/ ~Exists(prev.products, last.productId)
          \/ ~Exists(prev.warehouses, last.fromWarehouseId)
          \/ ~Exists(prev.warehouses, last.toWarehouseId)
          \/ last.quantity <= 0
          \/ last.fromWarehouseId = last.toWarehouseId
          \/ QuantityOf(prev.inventory, last.productId, last.fromWarehouseId)
                < last.quantity

\* An adjustment the reducer applies to the initial state.
AppliedAdjustment ==
    [type |-> "ADJUST_STOCK", productId |-> "p1", warehouseId |-> "w1",
     quantityChange |-> 1, logType |-> "AJUSTE"]

RejectionIsSurfaced ==
    MovementToReject =>
        HandlerOutcome(prev, last) # HandlerOutcome(initialState, AppliedAdjustment)

(***************************************************************************)
(* C29: every warehouse that a stock-movement dialog (adjustment, single   *)
(* transfer, bulk transfer) offers to the user signed in is one of the     *)
(* warehouses that user is permitted to use.                               *)
(***************************************************************************)
IdsOf(list) == {list[i].id : i \in 1..Len(list)}

DialogsOfferPermittedOnly ==
    currentUser # NoUser =>
        /\ IdsOf(StockAdjustModalWarehouses(State)) \subseteq IdsOf(PermittedWarehouses(State))
        /\ IdsOf(StockTransferModalWarehouses(State)) \subseteq IdsOf(PermittedWarehouses(State))
        /\ IdsOf(BulkTransferModalWarehouses(State)) \subseteq IdsOf(PermittedWarehouses(State))

\* The two dialogs that receive permittedWarehouses do keep to it.
SingleDialogsOfferPermittedOnly ==
    currentUser # NoUser =>
        /\ IdsOf(StockAdjustModalWarehouses(State)) \subseteq IdsOf(PermittedWarehouses(State))
        /\ IdsOf(StockTransferModalWarehouses(State)) \subseteq IdsOf(PermittedWarehouses(State))

\* An employee with access to one warehouse of several is signed in.
RestrictedUserSignedIn ==
    /\ currentUser # NoUser
    /\ currentUser.role = "EMPLEADO"
    /\ Len(PermittedWarehouses(State)) < Len(warehouses)
    /\ Len(PermittedWarehouses(State)) > 0

(***************************************************************************)
(* C22: a call of generateGRE_API, whether it succeeds or fails, never     *)
(* changes the inventory or the logs: issuing the call, and its resolving  *)
(* with either answer, leave both as they were, so the movement the guide  *)
(* is about stays committed.  No stock operation waits for the call: with  *)
(* a call in flight and the page free, an adjustment can be dispatched.    *)
(***************************************************************************)
GreStep ==
    \/ pending' # pending
    \/ apiStatus' # apiStatus
    \/ apiResponse' # apiResponse

GreLeavesStockAlone ==
    /\ [][GreStep => (inventory' = inventory /\ logs' = logs)]_vars
    /\ []((pending # {} /\ CanDispatchGre) => ENABLED AdjustStock)

\* The guide of a movement made in this run was emitted and the call failed;
\* the movement's entry is still the newest of the log.
GreLeavesStockAloneWitness ==
    /\ apiStatus = "error"
    /\ ops > 0
    /\ NewLogs # <<>>
    /\ documentToView.logEntries = NewLogs

(***************************************************************************)
(* C23: generateGRE_API is only ever called for a group of log entries     *)
(* that holds at least one SALIDA entry, and that entry is in the log; a   *)
(* guide opened for entries without a SALIDA offers no emit action, and    *)
(* its component never leaves the idle status.                             *)
(***************************************************************************)
HasSalidaInLog(logEntries) ==
    \E i \in 1..Len(logEntries) :
        /\ logEntries[i].type = "SALIDA"
        /\ \E j \in 1..Len(logs) : logs[j] = logEntries[i]

GreOnlyForSalida ==
    /\ \A call \in pending : HasSalidaInLog(call.logEntries) /\ call.items # <<>>
    /\ (documentToView # NoDocument /\ ~HasSalidaInLog(documentToView.logEntries))
          => (~EmitOffered /\ apiStatus = "idle")
    /\ apiStatus # "idle" => HasSalidaInLog(documentToView.logEntries)

\* A call is in flight for the SALIDA entry of a movement made in this run.
GreOnlyForSalidaWitness ==
    /\ ops > 0
    /\ NewLogs # <<>>
    /\ \E call \in pending : call.logEntries = NewLogs

\* A guide is open for an adjustment's AJUSTE entry: it has nothing to emit.
GuideWithoutSalidaOpen ==
    /\ documentToView.type = "GUIA_REMISION"
    /\ Len(documentToView.logEntries) = 1
    /\ documentToView.logEntries[1].type = "AJUSTE"

(***************************************************************************)
(* C30: once handleEmitirGRE has set apiStatus to 'loading', apiStatus     *)
(* eventually becomes 'success' or 'error'.                                *)
(***************************************************************************)
LoadingEnds ==
    (apiStatus = "loading") ~> (apiStatus \in {"success", "error"})

\* C30, as the code has it: once apiStatus is 'loading', it eventually becomes
\* 'success' or 'error', unless the document is closed before the call
\* resolves; the component is then gone and its status with it.
LoadingEndsUnlessClosed ==
    (apiStatus = "loading")
        ~> (apiStatus \in {"success", "error"} \/ documentToView = NoDocument)

\* A call resolved with success and the guide shows it.
LoadingEndsUnlessClosedWitness ==
    /\ apiStatus = "success"
    /\ apiResponse = GREResponse(TRUE)
    /\ pending = {}

====
